---- MODULE Spec2Model ----
(***************************************************************************)
(* Model of osuAkatsuki/assets-service: the image pipeline                 *)
(* (app/usecases/images.py), the avatar HTTP handlers                      *)
(* (app/api/v1/avatars.py) and the object store adapter                    *)
(* (app/adapters/s3.py).                                                   *)
(*                                                                         *)
(* Python strings are sequences of one-character strings, so that          *)
(* f-string concatenation, str.lower, str.endswith and the `in` substring  *)
(* test are computed rather than assumed.  Python floats are IEEE-754      *)
(* doubles, computed exactly on 16-bit limbs.                              *)
(***************************************************************************)
EXTENDS Integers, Sequences, FiniteSets, TLC

(***************************************************************************)
(* Strings                                                                 *)
(***************************************************************************)
None == "None"

Slash == <<"/">>

Dot == <<".">>

DotDot == <<".", ".">>

DotPng == <<".", "p", "n", "g">>

\* str.lower() on one character
LowerChar(c) ==
    CASE c = "P" -> "p" [] c = "N" -> "n" [] c = "G" -> "g" [] c = "J" -> "j"
      [] c = "E" -> "e" [] c = "I" -> "i" [] c = "F" -> "f" [] c = "W" -> "w"
      [] c = "B" -> "b" [] c = "M" -> "m"
      [] OTHER -> c

Lower(s) == [i \in 1..Len(s) |-> LowerChar(s[i])]

\* `sub in s` for Python strings
Contains(s, sub) ==
    \E i \in 1..(Len(s) - Len(sub) + 1) : SubSeq(s, i, i + Len(sub) - 1) = sub

\* s.endswith(suffix)
EndsWith(s, suffix) ==
    /\ Len(s) >= Len(suffix)
    /\ SubSeq(s, Len(s) - Len(suffix) + 1, Len(s)) = suffix

(***************************************************************************)
(* IEEE-754 double arithmetic of `int(x * (cap / biggest))`, cap < biggest *)
(***************************************************************************)
LimbBase == 65536

RECURSIVE Pow2(_)
Pow2(n) == IF n = 0 THEN 1 ELSE 2 * Pow2(n - 1)

RECURSIVE BitLen(_)
BitLen(n) == IF n = 0 THEN 0 ELSE 1 + BitLen(n \div 2)

Max(a, b) == IF a >= b THEN a ELSE b

\* smallest k with cap * 2^k >= b: cap / b = m * 2^-(k+52), 2^52 <= m < 2^53
RECURSIVE RatioExp(_, _)
RatioExp(cap, b) == IF cap >= b THEN 0 ELSE 1 + RatioExp(2 * cap, b)

\* limbs (least significant first) plus a small non-negative integer
RECURSIVE AddLimbs(_, _)
AddLimbs(limbs, x) ==
    IF limbs = <<>> THEN <<>>
    ELSE <<(limbs[1] + x) % LimbBase>>
            \o AddLimbs(Tail(limbs), (limbs[1] + x) \div LimbBase)

\* limbs times a small integer, one limb longer than the input
RECURSIVE MulLimbs(_, _, _)
MulLimbs(limbs, w, carry) ==
    IF limbs = <<>> THEN <<carry>>
    ELSE <<(limbs[1] * w + carry) % LimbBase>>
            \o MulLimbs(Tail(limbs), w, (limbs[1] * w + carry) \div LimbBase)

\* long division: <<remainder, limb, ..., limb>> of r * LimbBase^n / b,
\* least significant limb first
RECURSIVE DivLimbs(_, _, _)
DivLimbs(r, b, n) ==
    IF n = 0 THEN <<r>>
    ELSE DivLimbs((r * LimbBase) % b, b, n - 1) \o <<(r * LimbBase) \div b>>

\* round half even on the remainder d[1] of a division by b
RoundMant(d, b) ==
    AddLimbs(Tail(d),
             IF 2 * d[1] > b \/ (2 * d[1] = b /\ d[2] % 2 = 1) THEN 1 ELSE 0)

\* cap * 2^k * 2^4 with b <= cap * 2^k < 2b: the top 5 bits of the significand
Scaled(cap, b) == cap * Pow2(RatioExp(cap, b)) * 16

\* the 53-bit significand of the double nearest to cap / b, as four limbs
RatioMant(cap, b) ==
    RoundMant(DivLimbs(Scaled(cap, b) % b, b, 3) \o <<Scaled(cap, b) \div b>>, b)

\* bits of the five-limb product p beyond the 53 a double keeps
DropBits(p) == Max(0, 48 + BitLen(p[5] * LimbBase + p[4]) - 53)

\* round half even at bit t of the lowest limb l
RoundsUp(l, t) ==
    /\ t > 0
    /\ \/ l % Pow2(t) > Pow2(t) \div 2
       \/ (l % Pow2(t) = Pow2(t) \div 2 /\ (l \div Pow2(t)) % 2 = 1)

\* the product p rounded to 53 significant bits
RoundLimbs(p, t) ==
    AddLimbs([p EXCEPT ![1] = p[1] - (p[1] % Pow2(t))],
             IF RoundsUp(p[1], t) THEN Pow2(t) ELSE 0)

\* int(): the integer part of q * 2^-(48 + shift)
Truncate(q, shift) == (q[5] * LimbBase + q[4]) \div Pow2(shift)

RoundAndTruncate(p, shift) == Truncate(RoundLimbs(p, DropBits(p)), shift)

\* int(w * (cap / b)): the product rounded to a double, then truncated
FloatScale(w, cap, b) ==
    RoundAndTruncate(MulLimbs(RatioMant(cap, b), w, 0), RatioExp(cap, b) + 4)

(***************************************************************************)
(* app/usecases/images.py: constants and ImageType                         *)
(***************************************************************************)
ALLOWED_MIME_TYPES == {"image/png", "image/jpeg", "image/gif", "image/webp"}

VIDEO_MIME_TYPES == {"image/gif"}

DISALLOWED_MODERATION_LABELS ==
    {"Explicit Nudity", "Explicit Sexual Activity", "Sex Toys",
     "Obstructed Intimate Parts", "Self-Harm", "Blood & Gore",
     "Death and Emaciation", "Hate Symbols"}

USER_AVATAR == "user_avatar"

USER_PROFILE_BACKGROUND == "user_profile_background"

CLAN_ICON == "clan_icon"

SCREENSHOT == "screenshot"

ImageType == {USER_AVATAR, USER_PROFILE_BACKGROUND, CLAN_ICON, SCREENSHOT}

get_s3_folder(image_type) ==
    CASE image_type = USER_AVATAR -> <<"a", "v", "a", "t", "a", "r", "s">>
      [] image_type = USER_PROFILE_BACKGROUND -> <<"p", "r", "o", "f", "i", "l", "e", "-", "b", "a", "c", "k", "g", "r", "o", "u", "n", "d", "s">>
      [] image_type = CLAN_ICON -> <<"c", "l", "a", "n", "-", "i", "c", "o", "n", "s">>
      [] image_type = SCREENSHOT -> <<"s", "c", "r", "e", "e", "n", "s", "h", "o", "t", "s">>

get_max_single_dimension_size(image_type) ==
    CASE image_type = USER_AVATAR -> 512
      [] image_type = USER_PROFILE_BACKGROUND -> 1920
      [] image_type = CLAN_ICON -> 256
      [] image_type = SCREENSHOT -> 1920

should_disallow_upload_all(moderation_labels) ==
    \A l \in moderation_labels : l \in DISALLOWED_MODERATION_LABELS

should_disallow_upload(moderation_labels) ==
    \E l \in moderation_labels : l \in DISALLOWED_MODERATION_LABELS

Error(user_feedback, code) == [user_feedback |-> user_feedback, code |-> code]

INVALID_CONTENT == "INVALID_CONTENT"

INAPPROPRIATE_CONTENT == "INAPPROPRIATE_CONTENT"

SERVICE_UNAVAILABLE == "SERVICE_UNAVAILABLE"

\* `None` where an Error could be
NoError == Error(None, None)

IsError(result) == result /= NoError

(***************************************************************************)
(* Image formats as PIL reports them (image.format, get_format_mimetype)   *)
(***************************************************************************)
PNG == <<"P", "N", "G">>

JPEG == <<"J", "P", "E", "G">>

GIF == <<"G", "I", "F">>

WEBP == <<"W", "E", "B", "P">>

BMP == <<"B", "M", "P">>

\* what ImageFile.Parser yields for the uploaded bytes: parses is FALSE when
\* feed/close raise, loads is FALSE when the pixel data fails to load later
RawImage(parses, format, mime, width, height, loads) ==
    [parses |-> parses, format |-> format, mime |-> mime,
     width |-> width, height |-> height, loads |-> loads]

\* image.format of an image whose format could not be determined
NoFormat == <<>>

Garbage == RawImage(FALSE, NoFormat, None, 0, 0, FALSE)

\* new size of an image exceeding the cap (lines 95-98)
NewSize(width, height, max_single_dimension_size) ==
    LET biggest_dimension == Max(width, height)
    IN  <<FloatScale(width, max_single_dimension_size, biggest_dimension),
          FloatScale(height, max_single_dimension_size, biggest_dimension)>>

TooLarge(width, height, max_single_dimension_size) ==
    width > max_single_dimension_size \/ height > max_single_dimension_size

\* Image.resize raises ValueError unless both sides are at least 1
ResizeRaises(size) == size[1] < 1 \/ size[2] < 1

Processed(format, mime, size) ==
    [error |-> NoError, format |-> format, mime |-> mime,
     width |-> size[1], height |-> size[2]]

Failed(error) ==
    [error |-> error, format |-> NoFormat, mime |-> None, width |-> 0, height |-> 0]

\* lines 91-99: the size the image is saved at
Resized(data, max_single_dimension_size) ==
    IF TooLarge(data.width, data.height, max_single_dimension_size)
    THEN NewSize(data.width, data.height, max_single_dimension_size)
    ELSE <<data.width, data.height>>

\* lines 99-103: resize and save, either of which may raise
Encode(data, resize, size) ==
    IF (resize /\ ResizeRaises(size)) \/ ~data.loads
    THEN Failed(Error("Invalid Image", INVALID_CONTENT))
    ELSE Processed(data.format, data.mime, size)

\* the try block of upload_image: decode, validate, resize, re-encode
ProcessImage(image_type, data) ==
    IF ~data.parses THEN Failed(Error("Invalid Image", INVALID_CONTENT))
    ELSE IF data.format = NoFormat
    THEN Failed(Error("Invalid Image Format", INVALID_CONTENT))
    ELSE IF data.mime \notin ALLOWED_MIME_TYPES
    THEN Failed(Error("Invalid Image Content Type", INVALID_CONTENT))
    ELSE Encode(data,
                TooLarge(data.width, data.height,
                         get_max_single_dimension_size(image_type)),
                Resized(data, get_max_single_dimension_size(image_type)))

NeedsModeration_no_screenshot_exemption(filter, image_mime_type, image_type) ==
    /\ filter
    /\ image_mime_type \notin VIDEO_MIME_TYPES

\* lines 116-123: whether rekognition is called for a processed image
NeedsModeration(filter, image_mime_type, image_type) ==
    /\ filter
    /\ image_mime_type \notin VIDEO_MIME_TYPES
    /\ image_type /= SCREENSHOT

\* file_name=f"{no_ext_file_name}.{image_format.lower()}"
UploadFileName(no_ext_file_name, image_format) ==
    no_ext_file_name \o Dot \o Lower(image_format)

DeleteExtensions_no_jpeg == <<<<"p", "n", "g">>, <<"j", "p", "g">>, <<"g", "i", "f">>, <<"w", "e", "b", "p">>>>

DeleteExtensions == <<<<"p", "n", "g">>, <<"j", "p", "g">>, <<"j", "p", "e", "g">>, <<"g", "i", "f">>, <<"w", "e", "b", "p">>>>

\* file_name=f"{no_ext_file_name}.{ext}"
DeleteFileName(no_ext_file_name, ext) == no_ext_file_name \o Dot \o ext

(***************************************************************************)
(* app/adapters/s3.py: the object store, a function from keys to objects   *)
(***************************************************************************)
\* Key=f"{directory}/{file_name}"
Key(directory, file_name) == directory \o Slash \o file_name

\* the stored bytes, as the image they decode to; `by` names the request
\* that wrote them (0: provisioned with the bucket)
Body(format, width, height, by) ==
    [format |-> format, width |-> width, height |-> height, by |-> by]

NoBody == Body(NoFormat, 0, 0, 0)

DownloadResponse(body, content_type) ==
    [body |-> body, content_type |-> content_type]

\* `None` where a DownloadResponse could be
NoResponse == DownloadResponse(NoBody, None)

\* upload: put_object, a provider error is logged and swallowed
S3Upload(st, body, file_name, directory, content_type, provider_error) ==
    IF provider_error THEN st
    ELSE [k \in DOMAIN st \cup {Key(directory, file_name)} |->
             IF k = Key(directory, file_name)
             THEN DownloadResponse(body, content_type)
             ELSE st[k]]

S3UploadRaises_propagate(provider_error) == provider_error

\* whether upload lets the provider error escape to its caller
S3UploadRaises(provider_error) == FALSE

\* download: get_object, None for NoSuchKey and for a provider error
S3Download(st, file_name, directory, provider_error) ==
    IF provider_error \/ Key(directory, file_name) \notin DOMAIN st
    THEN NoResponse
    ELSE st[Key(directory, file_name)]

\* delete: delete_object, NoSuchKey and provider errors are swallowed
S3Delete(st, file_name, directory, provider_error) ==
    IF provider_error THEN st
    ELSE [k \in DOMAIN st \ {Key(directory, file_name)} |-> st[k]]

(***************************************************************************)
(* app/api/v1/avatars.py                                                   *)
(***************************************************************************)
_get_status_code_for_error(error_code) ==
    CASE error_code = INVALID_CONTENT -> 400
      [] error_code = INAPPROPRIATE_CONTENT -> 400
      [] error_code = SERVICE_UNAVAILABLE -> 503
      [] OTHER -> 500

\* f"{user_id}" for an int
RECURSIVE Digits(_)
Digits(n) ==
    LET d == <<"0", "1", "2", "3", "4", "5", "6", "7", "8", "9">>
    IN  IF n < 10 THEN <<d[n + 1]>> ELSE Digits(n \div 10) \o <<d[(n % 10) + 1]>>

IntToStr(n) == IF n < 0 THEN <<"-">> \o Digits(0 - n) ELSE Digits(n)

IsTraversal_dots_only(file_path) == Contains(file_path, DotDot)

\* line 58: the path check of get_avatar
IsTraversal(file_path) ==
    Contains(file_path, DotDot) \/ Contains(file_path, Slash)

\* lines 61-62: the name get_avatar looks up
LookupName(file_path) ==
    IF ~EndsWith(file_path, DotPng) THEN file_path \o DotPng ELSE file_path

Avatars == <<"a", "v", "a", "t", "a", "r", "s">>

\* settings.DEFAULT_AVATAR_FILENAME: deployment configuration, any file name
\* that is no user id
DEFAULT_AVATAR_FILENAME == <<"d", "e", "f", "a", "u", "l", "t", ".", "j", "p", "g">>

DefaultAvatar == DownloadResponse(Body(JPEG, 256, 256, 0), "image/jpeg")

(***************************************************************************)
(* Bounds and inputs                                                       *)
(***************************************************************************)
\* requests served in one behaviour
MaxRequests == 2

\* concurrent requests in flight
Clients == {"c1", "c2"}

\* user ids (and ids of the owners of the other image types)
Ids == {7}

\* files uploaded as avatars
Images ==
    {RawImage(TRUE, PNG, "image/png", 300, 200, TRUE),
     RawImage(TRUE, PNG, "image/png", 2000, 1, TRUE),
     RawImage(TRUE, JPEG, "image/jpeg", 2000, 1000, TRUE),
     RawImage(TRUE, GIF, "image/gif", 300, 200, TRUE),
     RawImage(TRUE, WEBP, "image/webp", 300, 200, TRUE),
     RawImage(TRUE, BMP, "image/bmp", 300, 200, TRUE),
     Garbage}

\* files uploaded through the use case for any image type
PipelineImages ==
    {RawImage(TRUE, PNG, "image/png", 300, 200, TRUE),
     RawImage(TRUE, JPEG, "image/jpeg", 300, 200, TRUE),
     RawImage(TRUE, JPEG, "image/jpeg", 300, 200, FALSE),
     RawImage(TRUE, GIF, "image/gif", 300, 200, TRUE)}

\* widths and heights the processing block is tried on by itself
Dims == {1, 2, 200, 256, 257, 300, 322, 512, 513, 561, 1000, 1920, 1921,
         2000, 2148, 3000}

ProbeImages ==
    {RawImage(TRUE, PNG, "image/png", w, h, TRUE) : w \in Dims, h \in Dims}
        \cup {RawImage(TRUE, NoFormat, None, 300, 200, TRUE),
              RawImage(TRUE, BMP, "image/bmp", 300, 200, TRUE),
              RawImage(TRUE, PNG, "image/apng", 300, 200, TRUE),
              RawImage(TRUE, WEBP, "image/webp", 2000, 1000, FALSE),
              Garbage}

\* rekognition.detect_moderation_labels returned None
Unavailable == {None}

\* answers of rekognition.detect_moderation_labels
ModerationResponses ==
    {Unavailable, {}, {"Explicit Nudity"}, {"Explicit Nudity", "Smoking"}}

\* file_path values of GET /api/v1/avatars/{file_path:path}
Paths == {<<"7">>, <<"7", ".", "p", "n", "g">>, <<"7", ".", "j", "p", "e", "g">>,
          <<"1", "2">>, <<".", ".", "/", "7">>, <<"a", "/", "7", ".", "p", "n", "g">>}

(***************************************************************************)
(* State                                                                   *)
(***************************************************************************)
VARIABLES
    store,      \* the bucket: key -> [body, content_type]
    filterOn,   \* settings.SHOULD_FILTER_INAPPROPRIATE_CONTENT
    nreq,       \* requests started so far
    req,        \* per client: the request in flight and its locals
    alone,      \* per client: no other request overlapped the one in flight
    probe       \* input and output of the image processing block on its own

vars == <<store, filterOn, nreq, req, alone, probe>>

IdleReq ==
    [id |-> 0, op |-> "idle", pc |-> "idle", image_type |-> USER_AVATAR,
     name |-> <<>>, data |-> Garbage, image |-> Failed(NoError),
     labels |-> {}, result |-> NoError, status |-> 0,
     req_path |-> <<>>, file_path |-> <<>>,
     first_response |-> NoResponse, download_response |-> NoResponse,
     key_existed |-> FALSE, default_existed |-> FALSE,
     i |-> 1, puts |-> 0, gets |-> 0, deletes |-> 0, removed |-> 0,
     moderations |-> 0, put_ok |-> FALSE, provider_error |-> FALSE]

NoProbe == [image_type |-> USER_AVATAR, data |-> Garbage, image |-> Failed(NoError)]

EmptyStore == [k \in {} |-> NoResponse]

ProvisionedStore ==
    [k \in {Key(Avatars, DEFAULT_AVATAR_FILENAME)} |-> DefaultAvatar]

Init ==
    /\ store \in {EmptyStore, ProvisionedStore}
    /\ filterOn \in BOOLEAN
    /\ nreq = 0
    /\ req = [c \in Clients |-> IdleReq]
    /\ alone = [c \in Clients |-> TRUE]
    /\ probe = NoProbe

\* the overlap bookkeeping when client c starts a request
Started(c) ==
    [d \in Clients |->
        IF d = c THEN \A e \in Clients \ {c} : req[e].op = "idle"
        ELSE IF req[d].op = "idle" THEN alone[d] ELSE FALSE]

\* upload_avatar / delete_avatar: the response for what the use case returned
HandlerStatus(data) ==
    IF IsError(data) THEN _get_status_code_for_error(data.code) ELSE 204

\* the use case returns `result`; avatars are served through the handlers
Finish(r, result) ==
    [r EXCEPT !.pc = "done", !.result = result,
              !.status = IF r.image_type = USER_AVATAR
                         THEN HandlerStatus(result) ELSE 0]

Count(b) == IF b THEN 1 ELSE 0

(***************************************************************************)
(* upload_image (through upload_avatar for user avatars)                   *)
(***************************************************************************)
NewUpload(id, image_type, no_ext_file_name, data, image) ==
    [IdleReq EXCEPT !.id = id, !.op = "upload", !.image_type = image_type,
                    !.name = no_ext_file_name, !.data = data, !.image = image]

\* where the upload goes once the processing block is through
AfterProcessing(r) ==
    IF IsError(r.image.error) THEN Finish(r, r.image.error)
    ELSE IF NeedsModeration(filterOn, r.image.mime, r.image_type)
    THEN [r EXCEPT !.pc = "moderate"]
    ELSE [r EXCEPT !.pc = "put"]

UploadStart(c, image_type, id, data) ==
    /\ req[c].op = "idle"
    /\ nreq < MaxRequests
    /\ req' = [req EXCEPT ![c] =
                 AfterProcessing(NewUpload(nreq + 1, image_type, IntToStr(id), data,
                                           ProcessImage(image_type, data)))]
    /\ nreq' = nreq + 1
    /\ alone' = Started(c)
    /\ UNCHANGED <<store, filterOn, probe>>

Moderate(c, moderation_labels) ==
    /\ req[c].pc = "moderate"
    /\ LET r == [req[c] EXCEPT !.moderations = @ + 1,
                               !.labels = moderation_labels]
       IN  req' = [req EXCEPT ![c] =
                     IF moderation_labels = Unavailable
                     THEN Finish(r, Error("Service Unavailable", SERVICE_UNAVAILABLE))
                     ELSE IF should_disallow_upload(moderation_labels)
                     THEN Finish(r, Error("Inappropriate Content", INAPPROPRIATE_CONTENT))
                     ELSE [r EXCEPT !.pc = "put"]]
    /\ UNCHANGED <<store, filterOn, nreq, alone, probe>>

Put(c, provider_error) ==
    /\ req[c].pc = "put"
    /\ LET r == req[c]
       IN  /\ store' = S3Upload(store,
                                Body(r.image.format, r.image.width,
                                     r.image.height, r.id),
                                UploadFileName(r.name, r.image.format),
                                get_s3_folder(r.image_type),
                                r.image.mime, provider_error)
           /\ req' = [req EXCEPT ![c] =
                        IF S3UploadRaises(provider_error)
                        THEN [r EXCEPT !.pc = "done", !.puts = @ + 1,
                                       !.provider_error = TRUE,
                                       !.result = Error("Internal Server Error",
                                                        "exception"),
                                       !.status = 500]
                        ELSE Finish([r EXCEPT !.puts = @ + 1,
                                              !.put_ok = ~provider_error,
                                              !.provider_error = provider_error],
                                    NoError)]
    /\ UNCHANGED <<filterOn, nreq, alone, probe>>

(***************************************************************************)
(* delete_image (through delete_avatar for user avatars)                   *)
(***************************************************************************)
DeleteStart(c, image_type, id) ==
    /\ req[c].op = "idle"
    /\ nreq < MaxRequests
    /\ req' = [req EXCEPT ![c] =
                 [IdleReq EXCEPT !.id = nreq + 1, !.op = "delete",
                                 !.pc = "delete", !.image_type = image_type,
                                 !.name = IntToStr(id)]]
    /\ nreq' = nreq + 1
    /\ alone' = Started(c)
    /\ UNCHANGED <<store, filterOn, probe>>

DeleteStep(c, provider_error) ==
    /\ req[c].pc = "delete"
    /\ LET r == req[c]
           file_name == DeleteFileName(r.name, DeleteExtensions[r.i])
           directory == get_s3_folder(r.image_type)
           r1 == [r EXCEPT !.deletes = @ + 1,
                           !.removed = @ + Count(~provider_error /\
                                  Key(directory, file_name) \in DOMAIN store),
                           !.provider_error = @ \/ provider_error]
       IN  /\ store' = S3Delete(store, file_name, directory, provider_error)
           /\ req' = [req EXCEPT ![c] =
                        IF r.i = Len(DeleteExtensions) THEN Finish(r1, NoError)
                        ELSE [r1 EXCEPT !.i = @ + 1]]
    /\ UNCHANGED <<filterOn, nreq, alone, probe>>

(***************************************************************************)
(* get_avatar                                                              *)
(***************************************************************************)
FallsBack_never(download_response) == FALSE

\* line 65: the requested avatar was not served
FallsBack(download_response) == download_response = NoResponse

GetStart(c, file_path) ==
    /\ req[c].op = "idle"
    /\ nreq < MaxRequests
    /\ LET r == [IdleReq EXCEPT !.id = nreq + 1, !.op = "get",
                                !.req_path = file_path]
       IN  req' = [req EXCEPT ![c] =
                     IF IsTraversal(file_path)
                     THEN [r EXCEPT !.pc = "done", !.status = 404]
                     ELSE [r EXCEPT !.pc = "download",
                                    !.file_path = LookupName(file_path)]]
    /\ nreq' = nreq + 1
    /\ alone' = Started(c)
    /\ UNCHANGED <<store, filterOn, probe>>

Download(c, provider_error) ==
    /\ req[c].pc = "download"
    /\ LET r == req[c]
           download_response == S3Download(store, r.file_path, Avatars, provider_error)
           r1 == [r EXCEPT !.gets = @ + 1,
                           !.key_existed = Key(Avatars, r.file_path) \in DOMAIN store,
                           !.provider_error = @ \/ provider_error,
                           !.first_response = download_response]
       IN  req' = [req EXCEPT ![c] =
                     IF FallsBack(download_response)
                     THEN [r1 EXCEPT !.pc = "download_default"]
                     ELSE [r1 EXCEPT !.pc = "done", !.status = 200,
                                     !.download_response = download_response]]
    /\ UNCHANGED <<store, filterOn, nreq, alone, probe>>

DownloadDefault(c, provider_error) ==
    /\ req[c].pc = "download_default"
    /\ LET r == req[c]
           download_response ==
               S3Download(store, DEFAULT_AVATAR_FILENAME, Avatars, provider_error)
           r1 == [r EXCEPT !.gets = @ + 1,
                           !.default_existed =
                               Key(Avatars, DEFAULT_AVATAR_FILENAME) \in DOMAIN store,
                           !.provider_error = @ \/ provider_error]
       IN  req' = [req EXCEPT ![c] =
                     IF download_response = NoResponse
                     THEN [r1 EXCEPT !.pc = "done", !.status = 404]
                     ELSE [r1 EXCEPT !.pc = "done", !.status = 200,
                                     !.file_path = DEFAULT_AVATAR_FILENAME,
                                     !.download_response = download_response]]
    /\ UNCHANGED <<store, filterOn, nreq, alone, probe>>

\* the response leaves; the client may send its next request
Respond(c) ==
    /\ req[c].pc = "done"
    /\ req' = [req EXCEPT ![c] = IdleReq]
    /\ alone' = [alone EXCEPT ![c] = TRUE]
    /\ UNCHANGED <<store, filterOn, nreq, probe>>

UploadAvatar == \E c \in Clients, user_id \in Ids, file_content \in Images :
                    UploadStart(c, USER_AVATAR, user_id, file_content)

UploadImage == \E c \in Clients, t \in ImageType, id \in Ids, data \in PipelineImages :
                    UploadStart(c, t, id, data)

DoModerate == \E c \in Clients, l \in ModerationResponses : Moderate(c, l)

DoPut == \E c \in Clients, e \in BOOLEAN : Put(c, e)

DeleteAvatar == \E c \in Clients, user_id \in Ids : DeleteStart(c, USER_AVATAR, user_id)

DeleteImage == \E c \in Clients, t \in ImageType, id \in Ids : DeleteStart(c, t, id)

DoDeleteStep == \E c \in Clients, e \in BOOLEAN : DeleteStep(c, e)

GetAvatar == \E c \in Clients, p \in Paths : GetStart(c, p)

DoDownload == \E c \in Clients, e \in BOOLEAN : Download(c, e)

DoDownloadDefault == \E c \in Clients, e \in BOOLEAN : DownloadDefault(c, e)

DoRespond == \E c \in Clients : Respond(c)

\* the HTTP service: the three avatar endpoints
Next ==
    \/ UploadAvatar
    \/ DoModerate
    \/ DoPut
    \/ DeleteAvatar
    \/ DoDeleteStep
    \/ GetAvatar
    \/ DoDownload
    \/ DoDownloadDefault
    \/ DoRespond

Spec == Init /\ [][Next]_vars

\* the use cases called directly, for every image type
NextUsecase ==
    \/ UploadImage
    \/ DoModerate
    \/ DoPut
    \/ DeleteImage
    \/ DoDeleteStep
    \/ DoRespond

InitUsecase == Init /\ store = EmptyStore

SpecUsecase == InitUsecase /\ [][NextUsecase]_vars

\* the processing block of upload_image applied to one image
Process(image_type, data) ==
    /\ probe = NoProbe
    /\ probe' = [image_type |-> image_type, data |-> data,
                 image |-> ProcessImage(image_type, data)]
    /\ UNCHANGED <<store, filterOn, nreq, req, alone>>

Forget ==
    /\ probe /= NoProbe
    /\ probe' = NoProbe
    /\ UNCHANGED <<store, filterOn, nreq, req, alone>>

DoProcess == \E t \in ImageType, data \in ProbeImages : Process(t, data)

NextResize ==
    \/ DoProcess
    \/ Forget

InitResize == Init /\ store = EmptyStore /\ ~filterOn

SpecResize == InitResize /\ [][NextResize]_vars

(***************************************************************************)
(* Properties                                                              *)
(***************************************************************************)
HasPrefix(s, prefix) ==
    Len(s) >= Len(prefix) /\ SubSeq(s, 1, Len(prefix)) = prefix

\* the keys in the bucket of the form {directory}/{name}.{anything}
ObjectsOf(directory, name) ==
    {k \in DOMAIN store : HasPrefix(k, Key(directory, name) \o Dot)}

Done(c, op) == req[c].op = op /\ req[c].pc = "done"

\* the request of client c ran with no other request in flight and met no
\* provider error
Undisturbed(c) == alone[c] /\ ~req[c].provider_error

\* C1: an avatar that upload_avatar stored for user U is what a following
\* GET for U returns: when the bucket holds one object for U, written by an
\* upload, and the GET runs undisturbed, the response is 200 with that
\* object's bytes (format, dimensions) and content type.
C1_RoundTrip ==
    \A c \in Clients, user_id \in Ids :
        (/\ Done(c, "get")
         /\ Undisturbed(c)
         /\ req[c].req_path = IntToStr(user_id)
         /\ Cardinality(ObjectsOf(Avatars, IntToStr(user_id))) = 1)
        => \E k \in ObjectsOf(Avatars, IntToStr(user_id)) :
              /\ req[c].status = 200
              /\ req[c].download_response = store[k]

\* C2: after an upload whose put succeeded (and that ran alone) the bucket
\* holds exactly one object for its (directory, base name): the one this
\* upload wrote, whatever formats earlier uploads had.
C2_ReuploadOverwrites ==
    \A c \in Clients :
        (Done(c, "upload") /\ alone[c] /\ req[c].put_ok)
        => LET r == req[c]
               k == Key(get_s3_folder(r.image_type),
                        UploadFileName(r.name, r.image.format))
           IN  /\ ObjectsOf(get_s3_folder(r.image_type), r.name) = {k}
               /\ store[k].body.by = r.id

\* the formats whose MIME type upload_image accepts
StorableFormats == {PNG, JPEG, GIF, WEBP}

\* every file name upload_image can write is one delete_image deletes
DeleteCoversUploadNames ==
    \A id \in Ids, f \in StorableFormats :
        \E i \in 1..Len(DeleteExtensions) :
            UploadFileName(IntToStr(id), f)
                = DeleteFileName(IntToStr(id), DeleteExtensions[i])

\* C3: every key upload_image can write for (image type, base name) is one
\* delete_image deletes, and after a delete_image that ran alone with every
\* store delete succeeding no object of that (directory, base name) remains.
C3_DeleteCoversUploadKeys ==
    /\ DeleteCoversUploadNames
    /\ \A c \in Clients :
          (Done(c, "delete") /\ Undisturbed(c))
          => ObjectsOf(get_s3_folder(req[c].image_type), req[c].name) = {}

\* a delete that ran alone without provider error and removed a stored image
C3_Witness ==
    \E c \in Clients :
        Done(c, "delete") /\ Undisturbed(c) /\ req[c].removed > 0

\* C4: get_avatar looks a path with an extension up under exactly that name
\* and a path without extension under the name with ".png" appended.
C4_PngOnlyWhenNoExtension ==
    \A c \in Clients :
        (req[c].op = "get" /\ req[c].pc = "download")
        => req[c].file_path = IF Contains(req[c].req_path, Dot)
                              THEN req[c].req_path
                              ELSE req[c].req_path \o DotPng

\* C5 as stated: the moderation adapter is called at most once, and it is
\* called if and only if the image passed decode and MIME validation,
\* filtering is enabled, the MIME type is not image/gif and the type is not
\* Screenshot.
C5_ModerationIffValidated ==
    \A c \in Clients :
        LET r == req[c]
        IN  /\ r.moderations <= 1
            /\ Done(c, "upload")
               => (r.moderations = 1
                   <=> (/\ r.data.parses
                        /\ r.data.format /= NoFormat
                        /\ r.data.mime \in ALLOWED_MIME_TYPES
                        /\ filterOn
                        /\ r.data.mime /= "image/gif"
                        /\ r.image_type /= SCREENSHOT))

\* C5 amended: the moderation adapter is called at most once per upload, and
\* it is called if and only if the whole processing block (decode, MIME
\* validation, resize, re-encode) completed without error, filtering is
\* enabled, the MIME type is not image/gif and the type is not Screenshot;
\* a Screenshot or image/gif upload never calls it.
C5_ModerationExact ==
    \A c \in Clients :
        LET r == req[c]
        IN  /\ r.moderations <= 1
            /\ (r.op = "upload" /\ (r.image_type = SCREENSHOT
                                     \/ r.data.mime = "image/gif"))
               => r.moderations = 0
            /\ Done(c, "upload")
               => (r.moderations = 1
                   <=> (/\ ~IsError(r.image.error)
                        /\ filterOn
                        /\ r.image.mime /= "image/gif"
                        /\ r.image_type /= SCREENSHOT))

\* a processed, stored Screenshot that is no gif, filtering enabled, and the
\* moderation adapter was not called
C5_Witness ==
    \E c \in Clients :
        /\ Done(c, "upload")
        /\ filterOn
        /\ req[c].image_type = SCREENSHOT
        /\ req[c].data.mime = "image/jpeg"
        /\ req[c].puts = 1
        /\ req[c].moderations = 0

\* C6: a get_avatar request whose path contains ".." or "/" is answered 404
\* without any download from the object store.
C6_TraversalRejected ==
    \A c \in Clients :
        (/\ req[c].op = "get"
         /\ (Contains(req[c].req_path, DotDot) \/ Contains(req[c].req_path, Slash)))
        => /\ req[c].pc = "done"
           /\ req[c].status = 404
           /\ req[c].gets = 0

\* a rejected request for a path with a "/" and no ".."
C6_Witness ==
    \E c \in Clients :
        /\ Done(c, "get")
        /\ Contains(req[c].req_path, Slash)
        /\ ~Contains(req[c].req_path, DotDot)
        /\ req[c].status = 404

PassedPathCheck(c) ==
    /\ Done(c, "get")
    /\ ~Contains(req[c].req_path, DotDot)
    /\ ~Contains(req[c].req_path, Slash)

\* C7 as stated: for a request that passed the path check, a missing key
\* with an existing default avatar gives 200 with the default avatar; 404
\* only when both are missing from the store; the default is read only when
\* the requested key was missing.
C7_DefaultFallback ==
    \A c \in Clients :
        PassedPathCheck(c)
        => LET r == req[c]
               default_exists == Key(Avatars, DEFAULT_AVATAR_FILENAME) \in DOMAIN store
           IN  /\ (~r.key_existed /\ default_exists)
                  => (r.status = 200 /\ r.download_response = DefaultAvatar)
               /\ r.status = 404 => (~r.key_existed /\ ~default_exists)
               /\ r.gets = 2 => ~r.key_existed

\* C7 amended: for a request that passed the path check, when the download
\* of the requested key returns nothing (key missing or provider error) and
\* the download of the default avatar returns an object, the response is 200
\* with the default avatar's bytes and content type; the response is 404
\* only when both downloads return nothing; the default avatar is downloaded
\* only after the download of the requested key returned nothing; without a
\* provider error a download returns nothing exactly when the key is missing.
C7_FallbackOnAbsent ==
    \A c \in Clients :
        PassedPathCheck(c)
        => LET r == req[c]
           IN  /\ r.gets \in {1, 2}
               /\ r.gets = 2 <=> r.first_response = NoResponse
               /\ r.first_response /= NoResponse
                  => (r.status = 200 /\ r.download_response = r.first_response)
               /\ r.first_response = NoResponse
                  => IF r.download_response = NoResponse
                     THEN r.status = 404
                     ELSE /\ r.status = 200
                          /\ r.download_response = DefaultAvatar
                          /\ r.default_existed
               /\ ~r.provider_error
                  => /\ r.first_response = NoResponse <=> ~r.key_existed
                     /\ r.gets = 2
                        => (r.download_response = NoResponse <=> ~r.default_existed)
                     /\ r.status = 404 <=> (~r.key_existed /\ ~r.default_existed)

\* the requested key was missing and the default avatar was served
C7_Witness ==
    \E c \in Clients :
        /\ PassedPathCheck(c)
        /\ ~req[c].key_existed
        /\ req[c].gets = 2
        /\ req[c].status = 200
        /\ req[c].download_response = DefaultAvatar

\* C8: an accepted image exceeding the cap of its image type is processed
\* without error into floor(w*cap/max(w,h)) by floor(h*cap/max(w,h)), whose
\* larger side equals the cap.
C8_ResizeToCap ==
    LET d   == probe.data
        cap == get_max_single_dimension_size(probe.image_type)
        big == Max(d.width, d.height)
    IN  (/\ probe /= NoProbe
         /\ d.parses /\ d.loads
         /\ d.format /= NoFormat
         /\ d.mime \in ALLOWED_MIME_TYPES
         /\ (d.width > cap \/ d.height > cap))
        => /\ ~IsError(probe.image.error)
           /\ probe.image.width = (d.width * cap) \div big
           /\ probe.image.height = (d.height * cap) \div big
           /\ Max(probe.image.width, probe.image.height) = cap

\* C9: when the object store rejects the put, upload_image returns no Error
\* (204 from upload_avatar) as for a successful write, the store is
\* unchanged and the put is issued once.
C9_StorageFailureSuppressed ==
    [][\A c \in Clients :
          (/\ req[c].op = "upload"
           /\ req[c].pc = "put"
           /\ req'[c] /= req[c]
           /\ ~req'[c].put_ok)
          => /\ store' = store
             /\ req'[c].pc = "done"
             /\ req'[c].result = NoError
             /\ req'[c].status = 204
             /\ req'[c].puts = 1]_vars

\* an avatar upload answered 204 although the store rejected its put
C9_Witness ==
    \E c \in Clients :
        /\ Done(c, "upload")
        /\ req[c].puts = 1
        /\ ~req[c].put_ok
        /\ req[c].provider_error
        /\ req[c].status = 204

\* C10: an upload_image call that returns an Error issued no put and left
\* the store as it was; a step of an upload changes the store only as its
\* put; and when moderation applies the put follows one moderation call
\* that returned labels none of which is disallowed.
C10_FailedUploadWritesNothing ==
    [][\A c \in Clients :
          LET r == req[c]
              r2 == req'[c]
          IN  (r2 /= r /\ r2.op = "upload")
              => /\ (r2.pc = "done" /\ IsError(r2.result))
                    => (r2.puts = 0 /\ store' = store)
                 /\ store' /= store => (r.pc = "put" /\ r2.puts = 1)
                 /\ r2.puts > r.puts
                    => /\ r.pc = "put"
                       /\ r2.puts = 1
                       /\ (/\ filterOn
                           /\ r.data.mime /= "image/gif"
                           /\ r.image_type /= SCREENSHOT)
                          => /\ r.moderations = 1
                             /\ r.labels /= Unavailable
                             /\ r.labels \cap DISALLOWED_MODERATION_LABELS = {}]_vars

\* an upload rejected by moderation while an earlier image of the same base
\* name is in the store
C10_Witness ==
    \E c \in Clients :
        /\ Done(c, "upload")
        /\ req[c].result = Error("Inappropriate Content", INAPPROPRIATE_CONTENT)
        /\ req[c].puts = 0
        /\ ObjectsOf(get_s3_folder(req[c].image_type), req[c].name) /= {}

====
